---- MODULE Spec2Model ----
(***************************************************************************)
(* Model of src/antiraid.py: the AntiRaid cog.                             *)
(*                                                                         *)
(* on_message and _punish_user are coroutines run by a single-threaded     *)
(* event loop: the code between two awaits runs atomically, and at every   *)
(* await the loop may run any other handler.  Each action below is one     *)
(* such atomic stretch of a handler, from the await it resumes at to the   *)
(* next await (or to its return).                                          *)
(***************************************************************************)
EXTENDS Integers, Sequences, FiniteSets, TLC

\* ---------------------------------------------------------------- bounds
MaxTime == 1        \* message timestamps are 0..MaxTime
MaxEvents == 2      \* messages submitted in one behaviour
MaxCommands == 1    \* operator commands submitted in one behaviour

Guilds == {1, 2}
Users == {1, 2}
Members == {<<1, 1>>, <<1, 2>>, <<2, 1>>}   \* (guild, user): who is where
Times == 0..MaxTime

\* ------------------------------------------------------ program constants
None == 0                  \* Python None (ids are nonzero)
BotRank == 1               \* guild.me.top_role
WlRole == 1                \* the role id the whitelist commands are given
LogChan == 1               \* a text channel of the guild
GoneChan == 2              \* a channel deleted after ar_logchannel stored it
PingRole == 2              \* a role of the guild
GoneRole == 3              \* a role deleted after ar_pingrole stored it
DefaultSpamLimit == 7
DefaultSpamInterval == 5
DefaultMentionLimit == 5
DefaultMuteDuration == 600
PurgeLimit == 15
PurgeAge == 10
BanDeleteDays == 1

Actions == {"mute", "kick", "ban"}
Results == {"ok", "forbidden", "error"}

\* default_guild, registered in __init__
default_guild ==
    [enabled |-> FALSE,
     spam_limit |-> DefaultSpamLimit,
     spam_interval |-> DefaultSpamInterval,
     mention_limit |-> DefaultMentionLimit,
     action |-> "mute",
     mute_duration |-> DefaultMuteDuration,
     whitelist_roles |-> {},
     log_channel |-> None,
     ping_role |-> None]

\* ---------------------------------------------------------------- state
VARIABLES
    config,           \* self.config: guild -> settings
    message_history,  \* self.message_history: (guild, user) -> list of timestamps
    task,             \* the on_message calls, in submission order: their frames
    vlog,             \* history: the window updates, in the order they took
                      \* effect (seq: the frame, w: the pruned window that
                      \* was counted, fired: whether it reached spam_limit)
    command,          \* the operator commands, in submission order: their frames
    channel           \* guild -> the messages of its channel (history) and
                      \* the messages purge has deleted from it

vars == <<config, message_history, task, vlog, command, channel>>

\* ------------------------------------------------------- pure functions

\* mutant of MentionCount: @everyone is not counted
MentionCountNoEveryone(m) == m.mentions + m.role_mentions

\* mention_count of on_message
MentionCount(m) ==
    m.mentions + m.role_mentions + (IF m.mention_everyone THEN 1 ELSE 0)

\* the return of on_message before it reads the settings
EarlyReturn(m) == m.guild = None \/ m.bot

\* mutant of SettingsReturn: administrators are not exempt
SettingsReturnNoAdmin(m, s) ==
    \/ ~s.enabled
    \/ (m.roles \cap s.whitelist_roles) # {}

\* the returns of on_message on the settings it read
SettingsReturn(m, s) ==
    \/ ~s.enabled
    \/ (m.roles \cap s.whitelist_roles) # {}
    \/ m.administrator

\* mutant of MentionViolation: the limit has to be exceeded
MentionViolationAbove(m, s) == MentionCount(m) > s.mention_limit

\* mention_count >= settings["mention_limit"]
MentionViolation(m, s) == MentionCount(m) >= s.mention_limit

\* mutant of Prune: the entry at the cutoff is kept
PruneKeepsCutoff(user_history, cutoff) ==
    SelectSeq(user_history, LAMBDA t : t >= cutoff)

\* [t for t in user_history if t > cutoff]
Prune(user_history, cutoff) ==
    SelectSeq(user_history, LAMBDA t : t > cutoff)

\* self.message_history[g][u]: a defaultdict read
History(mh, k) == IF k \in DOMAIN mh THEN mh[k] ELSE <<>>

\* self.message_history[g][u] = w
SetHistory(mh, k, w) ==
    [x \in (DOMAIN mh) \cup {k} |-> IF x = k THEN w ELSE mh[x]]

\* append and prune of the velocity check
Record(mh, k, now, interval) ==
    Prune(Append(History(mh, k), now), now - interval)

\* mutant of VelocityViolation: the limit has to be exceeded
VelocityViolationAbove(w, s) == Len(w) > s.spam_limit

\* len(...) >= settings["spam_limit"]
VelocityViolation(w, s) == Len(w) >= s.spam_limit

\* mutant of Debounced: the window is reset only when it is over the limit
DebouncedOverLimit(w, s) == IF Len(w) > s.spam_limit THEN <<>> ELSE w

\* mutant of Debounced: the reset keeps the timestamp of the violation
DebouncedKeepsLast(w, s) ==
    IF VelocityViolation(w, s) THEN SubSeq(w, Len(w), Len(w)) ELSE w

\* mutant of Debounced: the window is not reset on a violation
DebouncedNever(w, s) == w

\* the window the velocity check leaves behind
Debounced(w, s) == IF VelocityViolation(w, s) THEN <<>> ELSE w

\* mutant of HierarchyAbort: a member of the bot's own rank is acted on
HierarchyAbortAbove(m) == m.top_role > BotRank

\* member.top_role >= guild.me.top_role
HierarchyAbort(m) == m.top_role >= BotRank

\* mutant of Caught: only discord.Forbidden is treated as a failure
CaughtForbidden(r) == r = "forbidden"

\* the except clauses around purge and the punishment: both return
Caught(r) == r \in {"forbidden", "error"}

\* mutant of Swallowed: only discord.Forbidden is swallowed
SwallowedForbidden(r) == r # "error"

\* the bare except clauses around the alert and the log send
Swallowed(r) == r \in {"ok", "forbidden", "error"}

\* guild.get_channel(id) and guild.get_role(id): None for a deleted one
GetChannel(id) == IF id = GoneChan THEN None ELSE id
GetRole(id) == IF id = GoneRole THEN None ELSE id

\* mutant of KeyOf: the windows are kept by user only
KeyOfUser(m) == <<1, m.author>>

\* self.message_history[message.guild.id][message.author.id]
KeyOf(m) == <<m.guild, m.author>>

\* a channel: the messages in it, oldest first, and what purge deleted
Channel(history) == [history |-> history, deleted |-> {}]

\* the id of the next message of a channel
NextId(c) == Len(c.history) + Cardinality(c.deleted) + 1

\* message m appears in its channel
Posted(c, m) ==
    [c EXCEPT !.history = Append(@, [id |-> NextId(c), author |-> m.author,
                                     created_at |-> m.created_at])]

\* the messages purge(limit=15, check=check) looks at: the last 15
Searched(history) ==
    {j \in 1..Len(history) : j > Len(history) - PurgeLimit}

\* mutant of Check: the author is not compared
CheckAge(m, message) == message.created_at - m.created_at < PurgeAge

\* check(m) of _punish_user, for the triggering message
Check(m, message) ==
    /\ m.author = message.author
    /\ message.created_at - m.created_at < PurgeAge

\* channel.purge(limit=15, check=check), called by frame i for message
Purge(c, message, i) ==
    LET hit == {j \in Searched(c.history) : Check(c.history[j], message)}
    IN  [history |-> SelectSeq(c.history, LAMBDA x :
                        \A j \in hit : c.history[j].id # x.id),
         deleted |-> c.deleted \cup
                        {[id |-> c.history[j].id,
                          author |-> c.history[j].author,
                          created_at |-> c.history[j].created_at,
                          back |-> Len(c.history) - j,
                          by |-> i] : j \in hit}]

\* ------------------------------------------------------------- frames

Frame(m) ==
    [pc |-> IF EarlyReturn(m) THEN "done" ELSE "settings",
     message |-> m,
     settings |-> default_guild,     \* not read yet
     psettings |-> default_guild,    \* not read yet
     reason |-> "none",
     action_verbed |-> "unbound",
     log_chan |-> None,
     calls |-> <<>>]

\* an external call and the result of its await
Call(op, n, verb, ping, chan) ==
    [op |-> op, res |-> "pending", n |-> n, verb |-> verb, ping |-> ping,
     chan |-> chan]

Returned(calls, r) ==
    [calls EXCEPT ![Len(calls)] = [@ EXCEPT !.res = r]]

\* ---------------------------------------------------------------- actions

\* mutant of OnMessage: a message is taken in only when no handler is
\* suspended
OnMessageSerial(m) ==
    /\ \A i \in DOMAIN task : task[i].pc \in {"done", "raised"}
    /\ task' = Append(task, Frame(m))
    /\ channel' = IF m.guild = None THEN channel
                  ELSE [channel EXCEPT ![m.guild] = Posted(@, m)]
    /\ UNCHANGED <<config, message_history, vlog, command>>

\* on_message is entered for message m; it returns at once for a direct
\* message or a bot author, and otherwise suspends at the settings read.
OnMessage(m) ==
    /\ task' = Append(task, Frame(m))
    /\ channel' = IF m.guild = None THEN channel
                  ELSE [channel EXCEPT ![m.guild] = Posted(@, m)]
    /\ UNCHANGED <<config, message_history, vlog, command>>

\* on_message resumes from the settings read (ok: the read succeeded) and
\* runs to its return or to the settings read of _punish_user.
Detect(i, ok) ==
    /\ task[i].pc = "settings"
    /\ LET m == task[i].message
           s == config[m.guild]
           k == KeyOf(m)
           now == m.created_at
           w == Record(message_history, k, now, s.spam_interval)
       IN  IF ~ok
           THEN /\ task' = [task EXCEPT ![i].pc = "raised"]
                /\ UNCHANGED <<message_history, vlog>>
           ELSE IF SettingsReturn(m, s)
           THEN /\ task' = [task EXCEPT ![i].pc = "done", ![i].settings = s]
                /\ UNCHANGED <<message_history, vlog>>
           ELSE IF MentionViolation(m, s)
           THEN /\ task' = [task EXCEPT ![i].pc = "psettings",
                                        ![i].settings = s,
                                        ![i].reason = "mention"]
                /\ UNCHANGED <<message_history, vlog>>
           ELSE /\ message_history' =
                     SetHistory(message_history, k, Debounced(w, s))
                /\ vlog' = Append(vlog, [seq |-> i, key |-> k, now |-> now,
                                         w |-> w,
                                         fired |-> VelocityViolation(w, s)])
                /\ task' = [task EXCEPT
                              ![i].pc = IF VelocityViolation(w, s)
                                        THEN "psettings" ELSE "done",
                              ![i].settings = s,
                              ![i].reason = IF VelocityViolation(w, s)
                                            THEN "velocity" ELSE "none"]
    /\ UNCHANGED <<config, command, channel>>

\* _punish_user resumes from its settings read and runs to its return at the
\* hierarchy guard or to the purge.
PunishStart(i, ok) ==
    /\ task[i].pc = "psettings"
    /\ LET m == task[i].message
           s == config[m.guild]
       IN  IF ~ok
           THEN task' = [task EXCEPT ![i].pc = "raised"]
           ELSE IF HierarchyAbort(m)
           THEN task' = [task EXCEPT ![i].pc = "done", ![i].psettings = s]
           ELSE task' = [task EXCEPT
                   ![i].pc = "purge",
                   ![i].psettings = s,
                   ![i].calls = Append(@, Call("purge", PurgeLimit, "none",
                                               None, None))]
    /\ UNCHANGED <<config, message_history, vlog, command, channel>>

\* the purge returns r; on success the punishment of settings["action"] is
\* issued, on failure the except clauses return.
PurgeReturn(i, r) ==
    /\ task[i].pc = "purge"
    /\ channel' = IF r = "ok"
                  THEN [channel EXCEPT ![task[i].message.guild] =
                           Purge(@, task[i].message, i)]
                  ELSE channel
    /\ LET s == task[i].psettings
           calls == Returned(task[i].calls, r)
       IN  IF Caught(r)
           THEN task' = [task EXCEPT ![i].pc = "done", ![i].calls = calls]
           ELSE IF s.action = "mute"
           THEN task' = [task EXCEPT
                   ![i].pc = "punish",
                   ![i].calls = Append(calls, Call("timeout", s.mute_duration,
                                                   "none", None, None))]
           ELSE IF s.action = "kick"
           THEN task' = [task EXCEPT
                   ![i].pc = "punish",
                   ![i].calls = Append(calls, Call("kick", 0, "none", None,
                                                   None))]
           ELSE IF s.action = "ban"
           THEN task' = [task EXCEPT
                   ![i].pc = "punish",
                   ![i].calls = Append(calls, Call("ban", BanDeleteDays,
                                                   "none", None, None))]
           ELSE \* no branch taken: action_verbed is unbound at the alert
                task' = [task EXCEPT ![i].pc = "raised", ![i].calls = calls]
    /\ UNCHANGED <<config, message_history, vlog, command>>

\* action_verbed of the branch that was taken
Verbed(action) ==
    IF action = "mute" THEN "Muted"
    ELSE IF action = "kick" THEN "Kicked" ELSE "Banned"

\* the punishment returns r; on success the alert is sent (with the ping
\* role when it is set and found), on failure the except clauses return.
PunishReturn(i, r) ==
    /\ task[i].pc = "punish"
    /\ LET s == task[i].psettings
           calls == Returned(task[i].calls, r)
           verb == Verbed(s.action)
           ping == IF s.ping_role # None THEN GetRole(s.ping_role) ELSE None
       IN  IF Caught(r)
           THEN task' = [task EXCEPT ![i].pc = "done", ![i].calls = calls]
           ELSE task' = [task EXCEPT
                   ![i].pc = "send",
                   ![i].action_verbed = verb,
                   ![i].calls = Append(calls, Call("send", 0, verb, ping,
                                                   None))]
    /\ UNCHANGED <<config, message_history, vlog, command, channel>>

\* the alert returns r, which a bare except swallows; the log record is sent
\* when a log channel is set and guild.get_channel finds it.
SendReturn(i, r) ==
    /\ task[i].pc = "send"
    /\ LET s == task[i].psettings
           calls == Returned(task[i].calls, r)
           log_chan == IF s.log_channel # None THEN GetChannel(s.log_channel)
                       ELSE None
       IN  IF ~Swallowed(r)
           THEN task' = [task EXCEPT ![i].pc = "raised", ![i].calls = calls]
           ELSE IF log_chan # None
           THEN task' = [task EXCEPT
                   ![i].pc = "log",
                   ![i].log_chan = log_chan,
                   ![i].calls = Append(calls, Call("log", 0,
                                                   task[i].action_verbed,
                                                   None, log_chan))]
           ELSE task' = [task EXCEPT ![i].pc = "done", ![i].calls = calls]
    /\ UNCHANGED <<config, message_history, vlog, command, channel>>

\* the log send returns r, which a bare except swallows
LogReturn(i, r) ==
    /\ task[i].pc = "log"
    /\ task' = [task EXCEPT
                  ![i].pc = IF Swallowed(r) THEN "done" ELSE "raised",
                  ![i].calls = Returned(task[i].calls, r)]
    /\ UNCHANGED <<config, message_history, vlog, command, channel>>

\* ------------------------------------------------- operator commands
\* Every command ends with a ctx.send, which changes nothing modelled here;
\* ar_pingmessage and ar_view touch no setting the detection or the response
\* reads and are left out.

\* the words ar_action is given in the model
ActionWords == {"kick", "BAN", "warn"}

\* action.lower()
Lower(word) == IF word = "BAN" THEN "ban" ELSE word

\* mutant of ActionRejected: ar_action stores whatever it is given
ActionRejectedNever(word) == FALSE

\* action.lower() not in ["mute", "kick", "ban"]
ActionRejected(word) == Lower(word) \notin Actions

\* the frame of a command: it suspends at its first read or write of the
\* settings (ar_action returns at once on a word it rejects)
Cmd(op, g, word, n, n2) ==
    [op |-> op, guild |-> g, word |-> word, n |-> n, n2 |-> n2,
     pc |-> IF op \in {"toggle", "wl_add", "wl_remove"} THEN "read"
            ELSE IF op = "action" /\ ActionRejected(word) THEN "done"
            ELSE "set",
     current |-> FALSE, wl |-> {}]

\* a command is entered
Command(c) ==
    /\ command' = Append(command, c)
    /\ UNCHANGED <<config, message_history, task, vlog, channel>>

\* ar_toggle: reads enabled, then stores its negation
ar_toggle(j) ==
    /\ command[j].op = "toggle"
    /\ command[j].pc \in {"read", "set"}
    /\ LET g == command[j].guild
       IN  IF command[j].pc = "read"
           THEN /\ command' = [command EXCEPT
                                ![j].current = config[g].enabled,
                                ![j].pc = "set"]
                /\ UNCHANGED config
           ELSE /\ config' = [config EXCEPT
                                ![g].enabled = ~command[j].current]
                /\ command' = [command EXCEPT ![j].pc = "done"]
    /\ UNCHANGED <<message_history, task, vlog, channel>>

\* ar_action: stores the lowered word
ar_action(j) ==
    /\ command[j].op = "action"
    /\ command[j].pc = "set"
    /\ config' = [config EXCEPT
                    ![command[j].guild].action = Lower(command[j].word)]
    /\ command' = [command EXCEPT ![j].pc = "done"]
    /\ UNCHANGED <<message_history, task, vlog, channel>>

\* ar_spamlimit: stores spam_limit, then spam_interval
ar_spamlimit(j) ==
    /\ command[j].op = "spamlimit"
    /\ command[j].pc \in {"set", "set2"}
    /\ LET g == command[j].guild
       IN  IF command[j].pc = "set"
           THEN /\ config' = [config EXCEPT ![g].spam_limit = command[j].n]
                /\ command' = [command EXCEPT ![j].pc = "set2"]
           ELSE /\ config' = [config EXCEPT
                                ![g].spam_interval = command[j].n2]
                /\ command' = [command EXCEPT ![j].pc = "done"]
    /\ UNCHANGED <<message_history, task, vlog, channel>>

\* ar_mentionlimit: stores mention_limit
ar_mentionlimit(j) ==
    /\ command[j].op = "mentionlimit"
    /\ command[j].pc = "set"
    /\ config' = [config EXCEPT ![command[j].guild].mention_limit =
                                    command[j].n]
    /\ command' = [command EXCEPT ![j].pc = "done"]
    /\ UNCHANGED <<message_history, task, vlog, channel>>

\* wl_add and wl_remove: the context manager reads the list when it is
\* entered and writes it back when it is left, after the ctx.send
ar_whitelist(j) ==
    /\ command[j].op \in {"wl_add", "wl_remove"}
    /\ command[j].pc \in {"read", "set"}
    /\ LET g == command[j].guild
           role == command[j].n
       IN  IF command[j].pc = "read"
           THEN /\ command' = [command EXCEPT
                     ![j].wl = IF command[j].op = "wl_add"
                               THEN config[g].whitelist_roles \cup {role}
                               ELSE config[g].whitelist_roles \ {role},
                     ![j].pc = "set"]
                /\ UNCHANGED config
           ELSE /\ config' = [config EXCEPT
                                ![g].whitelist_roles = command[j].wl]
                /\ command' = [command EXCEPT ![j].pc = "done"]
    /\ UNCHANGED <<message_history, task, vlog, channel>>

\* ar_logchannel: stores the id of the channel, or None
ar_logchannel(j) ==
    /\ command[j].op = "logchannel"
    /\ command[j].pc = "set"
    /\ config' = [config EXCEPT ![command[j].guild].log_channel =
                                    command[j].n]
    /\ command' = [command EXCEPT ![j].pc = "done"]
    /\ UNCHANGED <<message_history, task, vlog, channel>>

\* ar_pingrole: stores the id of the role, or None
ar_pingrole(j) ==
    /\ command[j].op = "pingrole"
    /\ command[j].pc = "set"
    /\ config' = [config EXCEPT ![command[j].guild].ping_role =
                                    command[j].n]
    /\ command' = [command EXCEPT ![j].pc = "done"]
    /\ UNCHANGED <<message_history, task, vlog, channel>>

\* one step of any command: at most MaxCommands commands, drawn from K
Operate(K) ==
    \/ \E c \in K : Len(command) < MaxCommands /\ Command(c)
    \/ \E j \in DOMAIN command : ar_toggle(j)
    \/ \E j \in DOMAIN command : ar_action(j)
    \/ \E j \in DOMAIN command : ar_spamlimit(j)
    \/ \E j \in DOMAIN command : ar_mentionlimit(j)
    \/ \E j \in DOMAIN command : ar_whitelist(j)
    \/ \E j \in DOMAIN command : ar_logchannel(j)
    \/ \E j \in DOMAIN command : ar_pingrole(j)

\* ------------------------------------------------------------ inputs

\* a message, as on_message and _punish_user read it
Message(g, u, bot, roles, admin, rank, users, rolem, everyone, t) ==
    [guild |-> g, author |-> u, bot |-> bot, roles |-> roles,
     administrator |-> admin, top_role |-> rank, mentions |-> users,
     role_mentions |-> rolem, mention_everyone |-> everyone,
     created_at |-> t]

\* top_role of the members: the bot outranks user 1 of guild 1 only
RankOf(g, u) == IF g = 1 /\ u = 1 THEN BotRank - 1 ELSE BotRank

\* a message with no mention of an ordinary member
Plain(g, u, t) ==
    Message(g, u, FALSE, {}, FALSE, RankOf(g, u), 0, 0, FALSE, t)

\* settings the operator commands can store (mute_duration has no command)
Settings(enabled, limit, interval, mentions, action, wl, log, ping) ==
    [enabled |-> enabled, spam_limit |-> limit, spam_interval |-> interval,
     mention_limit |-> mentions, action |-> action,
     mute_duration |-> DefaultMuteDuration, whitelist_roles |-> wl,
     log_channel |-> log, ping_role |-> ping]

\* one step of any handler: at most MaxEvents messages, drawn from E, settings
\* reads that succeed as B says, external calls that return a result of R
Step(E, B, R) ==
    \/ \E m \in E : Len(task) < MaxEvents /\ OnMessage(m)
    \/ \E i \in DOMAIN task, ok \in B : Detect(i, ok)
    \/ \E i \in DOMAIN task, ok \in B : PunishStart(i, ok)
    \/ \E i \in DOMAIN task, r \in R : PurgeReturn(i, r)
    \/ \E i \in DOMAIN task, r \in R : PunishReturn(i, r)
    \/ \E i \in DOMAIN task, r \in R : SendReturn(i, r)
    \/ \E i \in DOMAIN task, r \in R : LogReturn(i, r)

Start(C) ==
    /\ \E c \in C : config = [g \in Guilds |-> c]
    /\ message_history = <<>>
    /\ task = <<>>
    /\ vlog = <<>>
    /\ command = <<>>
    /\ channel = [g \in Guilds |-> Channel(<<>>)]

\* -------- velocity: plain messages of every key, every spam threshold
VelocityEvents == {Plain(k[1], k[2], t) : k \in Members, t \in Times}

VelocityConfigs ==
    {Settings(TRUE, l, iv, DefaultMentionLimit, "mute", {}, LogChan, None) :
        l \in 1..2, iv \in 0..2}

InitVelocity == Start(VelocityConfigs)
NextVelocity == Step(VelocityEvents, {TRUE}, {"ok"})
SpecVelocity == InitVelocity /\ [][NextVelocity]_vars

\* -------- response: messages that raise an incident (a mention incident
\* for an author of any rank, a velocity incident for an author the bot does
\* not outrank), under every action, with every result of the external calls
Raiding(rank, users) ==
    Message(1, 1, FALSE, {}, FALSE, rank, users, 0, FALSE, 0)

RespondEvents ==
    {Raiding(rank, 1) : rank \in (BotRank - 1)..(BotRank + 1)}
        \cup {Raiding(rank, 0) : rank \in BotRank..(BotRank + 1)}

RespondConfigs ==
    {Settings(TRUE, 1, 1, 1, a, {}, log, None) :
        a \in Actions, log \in {None, LogChan, GoneChan}}

InitRespond == Start(RespondConfigs)
NextRespond == Step(RespondEvents, {TRUE}, Results)
SpecRespond == InitRespond /\ [][NextRespond]_vars

\* -------- operation: messages that raise an incident while the operator
\* commands of guild 1 change its settings, with any integer arguments
LimitArgs == {-1, 1}

Commands ==
    {Cmd("toggle", 1, "", 0, 0)}
        \cup {Cmd("action", 1, word, 0, 0) : word \in ActionWords}
        \cup {Cmd("spamlimit", 1, "", n, n) : n \in LimitArgs}
        \cup {Cmd("mentionlimit", 1, "", n, 0) : n \in LimitArgs}
        \cup {Cmd(op, 1, "", WlRole, 0) : op \in {"wl_add", "wl_remove"}}
        \cup {Cmd("logchannel", 1, "", LogChan, 0)}
        \cup {Cmd("pingrole", 1, "", PingRole, 0)}

OperateEvents == {Raiding(BotRank - 1, 1)}

OperateConfigs == {Settings(TRUE, 1, 1, 1, "mute", {}, None, None)}

InitOperate == Start(OperateConfigs)
NextOperate == Step(OperateEvents, {TRUE}, {"ok"}) \/ Operate(Commands)
SpecOperate == InitOperate /\ [][NextOperate]_vars

\* -------- action: messages that raise an incident while ar_action is given
\* words it stores and words it rejects
ActionCommands == {Cmd("action", 1, word, 0, 0) : word \in ActionWords}

ActionConfigs == {Settings(TRUE, 1, 1, 1, "mute", {}, LogChan, None)}

InitAction == Start(ActionConfigs)
NextAction ==
    \/ Step(OperateEvents, {TRUE}, {"ok"})
    \/ \E c \in ActionCommands : Len(command) < MaxCommands /\ Command(c)
    \/ \E j \in DOMAIN command : ar_action(j)
SpecAction == InitAction /\ [][NextAction]_vars

\* -------- stalls: a member the bot outranks raises incidents whose external
\* calls return any result or never return, while other members post; the
\* event loop resumes a handler whose settings read has completed, and
\* nothing makes an external call return
StallEvents == {Raiding(BotRank - 1, 1), Plain(1, 2, 0), Plain(2, 1, 0)}

StallConfigs == {Settings(TRUE, 2, 1, 1, a, {}, LogChan, None) :
                    a \in {"mute", "ban"}}

InitStall == Start(StallConfigs)
NextStall == Step(StallEvents, {TRUE}, Results)
FairStall ==
    \A i \in 1..MaxEvents :
        /\ WF_vars(i \in DOMAIN task /\ Detect(i, TRUE))
        /\ WF_vars(i \in DOMAIN task /\ PunishStart(i, TRUE))
SpecStall == InitStall /\ [][NextStall]_vars /\ FairStall

\* -------- cleanup: a channel that already holds messages (of another
\* member, one second old, but for one older message of the member who is
\* about to trigger), a triggering message, and messages that arrive before
\* the purge runs, one of them long after the trigger
Backlog(n, p, t) ==
    [j \in 1..n |-> IF j = p THEN [id |-> j, author |-> 1, created_at |-> t]
                    ELSE [id |-> j, author |-> 2, created_at |-> -1]]

Backlogs ==
    {Backlog(n, p, t) : n \in (PurgeLimit - 2)..PurgeLimit, p \in 1..2,
                        t \in {-PurgeAge, 1 - PurgeAge}}

Late == Message(1, 1, FALSE, {}, FALSE, BotRank - 1, 0, 0, FALSE,
                PurgeAge + 1)

CleanupEvents == {Raiding(BotRank - 1, 1), Late, Plain(1, 2, 0)}

InitCleanup ==
    /\ config = [g \in Guilds |->
                    Settings(TRUE, 2, 1, 1, "mute", {}, LogChan, None)]
    /\ message_history = <<>>
    /\ task = <<>>
    /\ vlog = <<>>
    /\ command = <<>>
    /\ \E h \in Backlogs :
          channel = [g \in Guilds |-> Channel(IF g = 1 THEN h ELSE <<>>)]
NextCleanup == Step(CleanupEvents, {TRUE}, {"ok"})
SpecCleanup == InitCleanup /\ [][NextCleanup]_vars

\* -------- debounce: velocity incidents of a member the bot outranks, whose
\* response meets every result of the external calls, and of a member of the
\* bot's rank, whose response ends at the hierarchy guard
DebounceEvents == {Plain(1, u, 0) : u \in Users}

DebounceConfigs ==
    {Settings(TRUE, l, MaxTime + 1, DefaultMentionLimit, "mute", {}, LogChan,
              None) : l \in 1..2}

InitDebounce == Start(DebounceConfigs)
NextDebounce == Step(DebounceEvents, {TRUE}, Results)
SpecDebounce == InitDebounce /\ [][NextDebounce]_vars

\* -------- unavailable settings: messages handled while the settings reads
\* of on_message and _punish_user may fail
UnavailableEvents == {Raiding(BotRank - 1, 1), Plain(1, 1, 0), Plain(1, 2, 0)}

UnavailableConfigs == {Settings(TRUE, 2, 1, 1, "mute", {}, LogChan, None)}

InitUnavailable == Start(UnavailableConfigs)
NextUnavailable == Step(UnavailableEvents, BOOLEAN, {"ok"})
SpecUnavailable == InitUnavailable /\ [][NextUnavailable]_vars

\* -------- detection: plain messages of every key, and messages of user 2
\* of guild 1 that meet one exemption (or all of them) or carry mentions
Special(dm, bot, admin, roles, users, rolem, everyone) ==
    Message(IF dm THEN None ELSE 1, 2, bot, roles, admin, RankOf(1, 2),
            users, rolem, everyone, 0)

ExemptEvents ==
    {Special(TRUE, FALSE, FALSE, {}, 2, 0, FALSE),
     Special(FALSE, TRUE, FALSE, {}, 2, 0, FALSE),
     Special(FALSE, FALSE, TRUE, {}, 2, 0, FALSE),
     Special(FALSE, FALSE, FALSE, {WlRole}, 2, 0, FALSE),
     Special(TRUE, TRUE, TRUE, {WlRole}, 0, 0, FALSE)}

MentionEvents ==
    {Special(FALSE, FALSE, FALSE, {}, 1, 0, FALSE),
     Special(FALSE, FALSE, FALSE, {}, 0, 1, FALSE),
     Special(FALSE, FALSE, FALSE, {}, 0, 0, TRUE),
     Special(FALSE, FALSE, FALSE, {}, 1, 1, FALSE)}

DetectEvents == VelocityEvents \cup ExemptEvents \cup MentionEvents

DetectConfigs ==
    {Settings(on, 2, 2, ml, "mute", wl, LogChan, None) :
        on \in BOOLEAN, ml \in 1..2, wl \in {{}, {WlRole}}}

InitDetect == Start(DetectConfigs)
NextDetect == Step(DetectEvents, {TRUE}, {"ok"})
SpecDetect == InitDetect /\ [][NextDetect]_vars

\* -------- zero limits: plain messages, a message with a mention and a
\* message of an administrator, under limits of 0 and every sign of the
\* interval
ZeroEvents ==
    {Plain(1, 2, t) : t \in Times}
        \cup {Plain(1, 1, 0), Plain(2, 1, 0),
              Special(FALSE, FALSE, FALSE, {}, 1, 0, FALSE),
              Special(FALSE, FALSE, TRUE, {}, 2, 0, FALSE)}

ZeroConfigs ==
    {Settings(TRUE, l[1], iv, l[2], "mute", {}, LogChan, None) :
        l \in {<<0, 3>>, <<0, 0>>, <<2, 0>>}, iv \in -1..1}

InitZero == Start(ZeroConfigs)
NextZero == Step(ZeroEvents, {TRUE}, {"ok"})
SpecZero == InitZero /\ [][NextZero]_vars

\* the frames whose message the velocity check has counted
Counted == {vlog[j].seq : j \in 1..Len(vlog)}

\* frame i passes, in this step, the point where on_message decides whether
\* the message is exempt
Decides(i) ==
    /\ i \in DOMAIN task'
    /\ task'[i].pc # "settings"
    /\ i \in DOMAIN task => task[i].pc = "settings"

\* the exemption of the claim, on the settings the frame read
ExemptAsClaimed(f) ==
    \/ f.message.guild = None
    \/ f.message.bot
    \/ ~f.settings.enabled
    \/ f.message.administrator
    \/ \E r \in f.message.roles : r \in f.settings.whitelist_roles

\* the mention count of the claim
MentionsAsClaimed(m) ==
    m.mentions + m.role_mentions + (IF m.mention_everyone THEN 1 ELSE 0)

\* C3: a message that is not exempt and whose mention count (mentioned users
\* + mentioned roles + 1 for @everyone) is >= mention_limit raises a mention
\* incident (_punish_user is entered once) and the step leaves every window
\* as it was; the count of a later message is taken over messages the
\* velocity check counted, so it never includes the mention message.
C3_MentionLeavesWindows ==
    /\ [](\A i \in DOMAIN task :
            (/\ task[i].pc # "settings"
             /\ ~ExemptAsClaimed(task[i])
             /\ MentionsAsClaimed(task[i].message)
                   >= task[i].settings.mention_limit) =>
                /\ task[i].reason = "mention"
                /\ i \notin Counted
                /\ Cardinality({j \in 1..Len(task[i].calls) :
                                  task[i].calls[j].op = "purge"}) <= 1)
    /\ [](\A j \in 1..Len(vlog) :
            Len(vlog[j].w) <=
                Cardinality({a \in 1..j : vlog[a].key = vlog[j].key}))
    /\ [][\A i \in DOMAIN task' :
            (/\ Decides(i)
             /\ ~ExemptAsClaimed(task'[i])
             /\ MentionsAsClaimed(task'[i].message)
                   >= task'[i].settings.mention_limit) =>
                /\ task'[i].pc = "psettings"
                /\ message_history' = message_history
                /\ vlog' = vlog]_vars

\* C3 witness: a mention incident was raised while the window of the author
\* held a timestamp, which is still there
C3_Witness ==
    \E i \in DOMAIN task :
        /\ task[i].reason = "mention"
        /\ MentionsAsClaimed(task[i].message) = task[i].settings.mention_limit
        /\ History(message_history, KeyOf(task[i].message)) # <<>>

\* C5: a message is exempt exactly when it has no guild, or its author is a
\* bot, or detection is disabled, or the author is an administrator, or one
\* of the author's roles is whitelisted; an exempt message raises no incident
\* whatever its mentions and the author's window, and its handling leaves
\* every window as it was; every other message is checked (it raises a
\* mention incident or is counted by the velocity check).
C5_ExemptNoIncident ==
    /\ [](\A i \in DOMAIN task :
            task[i].pc # "settings" =>
                IF ExemptAsClaimed(task[i])
                THEN /\ task[i].reason = "none"
                     /\ task[i].pc = "done"
                     /\ task[i].calls = <<>>
                     /\ i \notin Counted
                ELSE task[i].reason = "mention" \/ i \in Counted)
    /\ [][\A i \in DOMAIN task' :
            (Decides(i) /\ ExemptAsClaimed(task'[i])) =>
                /\ message_history' = message_history
                /\ vlog' = vlog]_vars

\* C5 witness: a message with a whitelisted role and mentions over the limit
\* was handled with no incident while the window of its author held a
\* timestamp
C5_Witness ==
    \E i \in DOMAIN task :
        /\ task[i].pc = "done"
        /\ task[i].reason = "none"
        /\ ~task[i].message.administrator /\ ~task[i].message.bot
        /\ task[i].message.guild # None /\ task[i].settings.enabled
        /\ task[i].message.roles \cap task[i].settings.whitelist_roles # {}
        /\ MentionsAsClaimed(task[i].message)
              >= task[i].settings.mention_limit
        /\ History(message_history, KeyOf(task[i].message)) # <<>>

\* C14: with mention_limit 0 every message that is not exempt raises a
\* mention incident; with spam_limit 0 and mention_limit above the mention
\* count of the message, every message that is not exempt raises a velocity
\* incident, the first one of a user included, whatever spam_interval is.
C14_ZeroLimits ==
    \A i \in DOMAIN task :
        (task[i].pc # "settings" /\ ~ExemptAsClaimed(task[i])) =>
            /\ task[i].settings.mention_limit = 0 =>
                  task[i].reason = "mention"
            /\ (/\ task[i].settings.spam_limit = 0
                /\ task[i].settings.mention_limit >
                      MentionsAsClaimed(task[i].message)) =>
                  /\ task[i].reason = "velocity"
                  /\ \E j \in 1..Len(vlog) : vlog[j].seq = i /\ vlog[j].fired

\* C14 witness: with spam_limit 0 and an interval that prunes every
\* timestamp, the first message of a user raised a velocity incident
C14_Witness ==
    \E i \in DOMAIN task :
        /\ task[i].reason = "velocity"
        /\ task[i].settings.spam_limit = 0
        /\ task[i].settings.spam_interval <= 0
        /\ \E j \in 1..Len(vlog) :
              /\ vlog[j].seq = i
              /\ vlog[j].w = <<>>
              /\ \A a \in 1..(j - 1) : vlog[a].key # vlog[j].key

\* ------------------------------------------------- claims on the response

ModerationOps == {"timeout", "kick", "ban"}

\* C4: for an incident whose author ranks with or above the bot,
\* _punish_user makes no external call (no purge, no timeout, kick or ban, no
\* alert, no log record) whatever the configured action, and returns.
C4_HierarchyNoEffects ==
    \A i \in DOMAIN task :
        (task[i].reason # "none" /\ task[i].message.top_role >= BotRank) =>
            /\ task[i].calls = <<>>
            /\ task[i].pc \in {"psettings", "done"}

\* C4 witness: with action ban, the response to an incident of an author who
\* outranks the bot has returned with no call made
C4_Witness ==
    \E i \in DOMAIN task :
        /\ task[i].reason # "none"
        /\ task[i].message.top_role > BotRank
        /\ task[i].psettings.action = "ban"
        /\ task[i].pc = "done"
        /\ task[i].calls = <<>>

\* C6 as claimed: when the hierarchy guard passes and the purge fails, the
\* configured timeout, kick or ban is still issued
C6_PunishedAfterFailedPurge ==
    \A i \in DOMAIN task :
        (/\ Len(task[i].calls) >= 1
         /\ task[i].calls[1].op = "purge"
         /\ task[i].calls[1].res \in {"forbidden", "error"}) =>
            /\ Len(task[i].calls) >= 2
            /\ task[i].calls[2].op \in ModerationOps

\* C7: an alert or a log record is sent only after the punishment call of the
\* same response has returned successfully; when the punishment call fails
\* (permission denied or any other error) nothing is sent after it and
\* on_message returns normally.
C7_AlertOnlyAfterPunishment ==
    \A i \in DOMAIN task :
        LET calls == task[i].calls
        IN  /\ \A j \in 1..Len(calls) :
                  calls[j].op \in {"send", "log"} =>
                      \E p \in 1..(j - 1) :
                          /\ calls[p].op \in ModerationOps
                          /\ calls[p].res = "ok"
            /\ \A p \in 1..Len(calls) :
                  (/\ calls[p].op \in ModerationOps
                   /\ calls[p].res \in {"forbidden", "error"}) =>
                      /\ Len(calls) = p
                      /\ task[i].pc = "done"

\* C7 witness: a ban has failed with an error other than permission denied,
\* and the handler has returned with nothing sent
C7_Witness ==
    \E i \in DOMAIN task :
        /\ Len(task[i].calls) = 2
        /\ task[i].calls[2].op = "ban"
        /\ task[i].calls[2].res = "error"
        /\ task[i].pc = "done"

\* C8: after a successful punishment a failed alert send is swallowed and the
\* log record is still sent when a log channel is set and found; a failed
\* log send is swallowed too; neither failure escapes on_message, neither
\* send is repeated, and no call follows that would undo the punishment.
C8_AlertAndLogBestEffort ==
    \A i \in DOMAIN task :
        LET calls == task[i].calls
            s == task[i].psettings
        IN  (Len(calls) >= 3 /\ calls[3].op = "send") =>
            /\ calls[2].op \in ModerationOps /\ calls[2].res = "ok"
            /\ task[i].pc # "raised"
            /\ calls[3].res # "pending" =>
                  IF s.log_channel \in {LogChan}
                  THEN /\ Len(calls) = 4
                       /\ calls[4].op = "log"
                       /\ calls[4].chan = s.log_channel
                       /\ task[i].pc = (IF calls[4].res = "pending"
                                         THEN "log" ELSE "done")
                  ELSE Len(calls) = 3 /\ task[i].pc = "done"

\* C8 witness: the alert send and the log send have both failed after a
\* successful punishment, and the handler has returned normally
C8_Witness ==
    \E i \in DOMAIN task :
        LET calls == task[i].calls
        IN  /\ Len(calls) = 4
            /\ calls[2].res = "ok"
            /\ calls[3].op = "send" /\ calls[3].res = "error"
            /\ calls[4].op = "log" /\ calls[4].res = "forbidden"
            /\ task[i].pc = "done"

\* the window updates of key k, in the order they took effect
KeyLog(k) == SelectSeq(vlog, LAMBDA e : e.key = k)

\* the first j updates of L lie within less than iv of each other
Within(L, j, iv) == \A a, b \in 1..j : L[a].now - L[b].now < iv

NonDecreasing(L, j) == \A a \in 1..(j - 1) : L[a].now <= L[a + 1].now

Elems(w) == {w[x] : x \in 1..Len(w)}

\* C1: from an empty window, with spam_limit >= 1 and spam_interval > 0, a
\* run of messages of one key with non-decreasing timestamps that lie within
\* less than spam_interval of each other raises no Velocity incident on
\* messages 1..spam_limit-1, raises one on message spam_limit, and leaves the
\* window of the key empty right after it.  (Messages are numbered in the
\* order on_message updates the window.)
C1_VelocityAtLimit ==
    \A k \in Members :
        LET L == KeyLog(k)
            s == config[k[1]]
        IN  (s.spam_limit >= 1 /\ s.spam_interval > 0) =>
            \A j \in 1..Len(L) :
                (/\ j <= s.spam_limit
                 /\ NonDecreasing(L, j)
                 /\ Within(L, j, s.spam_interval)) =>
                    /\ L[j].fired <=> (j = s.spam_limit)
                    /\ task[L[j].seq].reason =
                          (IF j = s.spam_limit THEN "velocity" ELSE "none")
                    /\ (j = s.spam_limit /\ Len(L) = j) =>
                          History(message_history, k) = <<>>

\* C1 witness: with spam_limit 2, the second message of such a run has raised
\* the incident, the first has not, and the window is empty
C1_Witness ==
    \E k \in Members :
        LET L == KeyLog(k)
            s == config[k[1]]
        IN  /\ s.spam_limit = 2 /\ s.spam_interval > 0
            /\ Len(L) = 2
            /\ NonDecreasing(L, 2) /\ Within(L, 2, s.spam_interval)
            /\ ~L[1].fired /\ L[2].fired
            /\ task[L[2].seq].reason = "velocity"
            /\ History(message_history, k) = <<>>

SettingsOf(e) == task[e.seq].settings

\* C9 as claimed: the window a step counted and the window it leaves hold no
\* timestamp t <= now - spam_interval; what is compared with spam_limit is
\* the length of that pruned window; and the pruned window includes the
\* message just appended
C9_PrunedIncludesAppended ==
    /\ \A j \in 1..Len(vlog) :
          LET e == vlog[j]
              s == SettingsOf(e)
          IN  /\ \A t \in Elems(e.w) : t > e.now - s.spam_interval
              /\ e.fired <=> (Len(e.w) >= s.spam_limit)
              /\ e.now \in Elems(e.w)
    /\ \A k \in Members :
          LET L == KeyLog(k)
          IN  Len(L) > 0 =>
                \A t \in Elems(History(message_history, k)) :
                    t > L[Len(L)].now - SettingsOf(L[Len(L)]).spam_interval

\* C9 as amended: as claimed, but the pruned window includes the message just
\* appended (as its last entry) exactly when spam_interval > 0; with
\* spam_interval <= 0 the message just appended is pruned as well and is not
\* counted.
C9_PrunedWindow ==
    /\ \A j \in 1..Len(vlog) :
          LET e == vlog[j]
              s == SettingsOf(e)
          IN  /\ \A t \in Elems(e.w) : t > e.now - s.spam_interval
              /\ e.fired <=> (Len(e.w) >= s.spam_limit)
              /\ (e.now \in Elems(e.w)) <=> (s.spam_interval > 0)
              /\ s.spam_interval > 0 => e.w[Len(e.w)] = e.now
    /\ \A k \in Members :
          LET L == KeyLog(k)
          IN  Len(L) > 0 =>
                \A t \in Elems(History(message_history, k)) :
                    t > L[Len(L)].now - SettingsOf(L[Len(L)]).spam_interval

\* C9 witness: a step has pruned an older timestamp of the key and counted
\* the window that was left
C9_Witness ==
    \E j \in 1..Len(vlog) :
        \E i \in 1..(j - 1) :
            /\ vlog[i].key = vlog[j].key
            /\ ~vlog[i].fired
            /\ vlog[i].now <= vlog[j].now - SettingsOf(vlog[j]).spam_interval
            /\ SettingsOf(vlog[j]).spam_interval > 0
            /\ vlog[j].w = <<vlog[j].now>>

\* the frames from i on that raise a Velocity incident, and the windows left,
\* when on_message handles the messages one after the other in the order
\* they were submitted, from the windows mh
RECURSIVE Serial(_, _, _)
Serial(i, mh, fired) ==
    IF i > Len(task) THEN [history |-> mh, fired |-> fired]
    ELSE LET m == task[i].message
             s == config[m.guild]
             k == KeyOf(m)
             w == Record(mh, k, m.created_at, s.spam_interval)
         IN  IF EarlyReturn(m) THEN Serial(i + 1, mh, fired)
             ELSE IF SettingsReturn(m, s) \/ MentionViolation(m, s)
             THEN Serial(i + 1, mh, fired)
             ELSE Serial(i + 1, SetHistory(mh, k, Debounced(w, s)),
                         IF VelocityViolation(w, s) THEN fired \cup {i}
                         ELSE fired)

\* C10 as claimed: the window updates of one key take effect in the order
\* the messages were submitted, so once every handler has passed its
\* settings read the Velocity incidents raised and the windows left are
\* those of handling the messages one after the other in submission order
C10_SubmissionOrder ==
    (\A i \in DOMAIN task : task[i].pc # "settings") =>
        /\ {i \in DOMAIN task : task[i].reason = "velocity"}
              = Serial(1, <<>>, {}).fired
        /\ message_history = Serial(1, <<>>, {}).history

\* ------------------------------------------ claims on the operator commands

\* C11 (as claimed): once _punish_user has read its settings, the action,
\* mute duration, ping role and log channel it holds are those of the
\* settings on_message detected the violation with.
C11_OneSnapshot ==
    \A i \in DOMAIN task :
        task[i].calls # <<>> =>
            /\ task[i].psettings.action = task[i].settings.action
            /\ task[i].psettings.mute_duration = task[i].settings.mute_duration
            /\ task[i].psettings.ping_role = task[i].settings.ping_role
            /\ task[i].psettings.log_channel = task[i].settings.log_channel

\* C13 (as claimed): the stored spam_limit, spam_interval and mention_limit
\* are never negative, and no message is checked against a negative limit.
C13_LimitsNeverNegative ==
    /\ \A g \in Guilds :
          /\ config[g].spam_limit >= 0
          /\ config[g].spam_interval >= 0
          /\ config[g].mention_limit >= 0
    /\ \A i \in DOMAIN task :
          /\ task[i].settings.spam_limit >= 0
          /\ task[i].settings.spam_interval >= 0
          /\ task[i].settings.mention_limit >= 0

\* the moderation calls frame f has issued
Moderations(f) ==
    {n \in 1..Len(f.calls) : f.calls[n].op \in ModerationOps}

\* C15: whatever words ar_action was given, the stored action is mute, kick
\* or ban; a response whose purge succeeded (so it passed the hierarchy
\* guard) issues, right after the purge, the moderation call named by the
\* action _punish_user read (timeout for mute_duration, kick, or ban), and
\* no response ever issues more than one moderation call.
C15_OneModerationCall ==
    /\ \A g \in Guilds : config[g].action \in {"mute", "kick", "ban"}
    /\ \A i \in DOMAIN task :
          /\ Cardinality(Moderations(task[i])) <= 1
          /\ (task[i].calls # <<>> /\ task[i].calls[1].res = "ok") =>
                /\ Moderations(task[i]) = {2}
                /\ task[i].calls[2].op =
                      (IF task[i].psettings.action = "mute" THEN "timeout"
                       ELSE task[i].psettings.action)
                /\ task[i].calls[2].op = "timeout" =>
                      task[i].calls[2].n = task[i].psettings.mute_duration

\* C15 witness: ar_action was given BAN, and a response that read the stored
\* action has banned the member and finished
C15_Witness ==
    \E i \in DOMAIN task, j \in DOMAIN command :
        /\ command[j].word = "BAN" /\ command[j].pc = "done"
        /\ task[i].pc = "done"
        /\ Len(task[i].calls) >= 3
        /\ task[i].calls[2].op = "ban" /\ task[i].calls[2].res = "ok"

\* --------------------------------------- claims on unavailable settings

\* C12 (as claimed): no handler ends with an exception; with the external
\* calls succeeding and a valid action stored, the only exception there
\* could be is the one of a failed settings read.
C12_UnavailableIsExempt ==
    \A i \in DOMAIN task : task[i].pc # "raised"

\* ----------------------------------------------------- claims on stalls

\* frame i is suspended in an external call that has not returned
InCall(i) == task[i].pc \in {"purge", "punish", "send", "log"}

\* C16: while a handler is suspended in an external call, a message of any
\* other (guild, user) key can be taken in, a handler of another key that
\* waits for its settings can resume, and every message taken in is
\* processed to the end of its detection even if no external call ever
\* returns.
C16_NoStall ==
    /\ [](\A i \in DOMAIN task : InCall(i) =>
            /\ \A m \in StallEvents :
                  (/\ <<m.guild, m.author>> #
                        <<task[i].message.guild, task[i].message.author>>
                   /\ Len(task) < MaxEvents) => ENABLED OnMessage(m)
            /\ \A j \in DOMAIN task :
                  (<<task[j].message.guild, task[j].message.author>> #
                      <<task[i].message.guild, task[i].message.author>>) =>
                     /\ task[j].pc = "settings" => ENABLED Detect(j, TRUE)
                     /\ task[j].pc = "psettings" =>
                           ENABLED PunishStart(j, TRUE))
    /\ \A j \in 1..MaxEvents :
          (j \in DOMAIN task /\ task[j].pc = "settings")
              ~> (j \in DOMAIN task /\
                  task[j].pc \in {"done", "psettings", "purge", "punish",
                                  "send", "log"})

\* C16 witness: a handler is suspended in a purge that has not returned, and
\* a message of another key, submitted later, has been counted and finished
C16_Witness ==
    \E i, j \in DOMAIN task :
        /\ i < j
        /\ task[i].pc = "purge"
        /\ task[i].message.author # task[j].message.author
        /\ task[j].pc = "done"
        /\ j \in Counted

\* ---------------------------------------------------- claims on the cleanup

\* every message purge has deleted, in any channel
Deleted == UNION {channel[g].deleted : g \in Guilds}

\* C17 (as claimed): a deleted message is of the punished member, was among
\* the last 15 of the channel, and was created within 10 seconds of the
\* triggering message (before or after it).
C17_WithinTenSeconds ==
    \A d \in Deleted :
        /\ d.author = task[d.by].message.author
        /\ d.back < 15
        /\ task[d.by].message.created_at - d.created_at < 10
        /\ d.created_at - task[d.by].message.created_at < 10

\* C17 (amended): a deleted message is of the punished member, was among
\* the last 15 of the channel when purge ran, and was created later than 10
\* seconds before the triggering message; one purge deletes at most 15
\* messages and no message of another member is ever deleted.
C17_CleanupScope ==
    /\ \A d \in Deleted :
          /\ d.author = task[d.by].message.author
          /\ d.back < 15
          /\ task[d.by].message.created_at - d.created_at < 10
    /\ \A i \in DOMAIN task :
          Cardinality({d \in Deleted : d.by = i}) <= 15

\* C17 witness: purge deleted a message of the member that was the 15th
\* newest of the channel and 9 seconds older than the trigger
C17_Witness ==
    \E d \in Deleted :
        /\ d.back = 14
        /\ task[d.by].message.created_at - d.created_at = 9
        /\ d.author = task[d.by].message.author

\* ---------------------------------------------------- claims on the windows

\* C18: with fixed settings and spam_limit >= 1, in every state (the states
\* are the points where the event loop may run another handler) every window
\* holds at most spam_limit - 1 timestamps.
C18_BoundedWindow ==
    \A k \in DOMAIN message_history :
        Len(message_history[k]) <= config[k[1]].spam_limit - 1

\* C18 witness: a window reached spam_limit = 2 timestamps inside a step and
\* was stored empty
C18_Witness ==
    \E j \in 1..Len(vlog) :
        /\ vlog[j].fired
        /\ Len(vlog[j].w) = 2
        /\ config[vlog[j].key[1]].spam_limit = 2
        /\ message_history[vlog[j].key] = <<>>

\* C19: a step changes or creates the window of at most one key, the
\* (guild, author) of the message whose detection the step runs; the window
\* of every other key is unchanged, and no key is ever removed.
C19_KeyIsolation ==
    [][/\ DOMAIN message_history \subseteq DOMAIN message_history'
       /\ \A k \in DOMAIN message_history' :
             (k \notin DOMAIN message_history \/
              message_history'[k] # message_history[k]) =>
                 \E i \in DOMAIN task' :
                    /\ Decides(i)
                    /\ k = <<task'[i].message.guild,
                             task'[i].message.author>>]_vars

\* C19 witness: user 1 has a window in guild 1 and another one in guild 2
C19_Witness ==
    /\ <<1, 1>> \in DOMAIN message_history
    /\ <<2, 1>> \in DOMAIN message_history
    /\ message_history[<<1, 1>>] # message_history[<<2, 1>>]

\* the window updates of the key of vlog[j] after j, up to b
Since(j, b) == {a \in (j + 1)..b : vlog[a].key = vlog[j].key}

\* the response of frame i is over and has not punished the member
Unpunished(i) ==
    /\ task[i].pc \in {"done", "raised"}
    /\ \A n \in 1..Len(task[i].calls) :
          task[i].calls[n].op \in ModerationOps => task[i].calls[n].res # "ok"

\* C20: after a velocity violation the window of the key is empty until the
\* next message of the key is counted, and the count starts again from
\* zero: a later window holds at most the messages counted since, and the
\* next incident needs spam_limit of them; this holds whether the response
\* was aborted by the hierarchy guard, failed or succeeded.
C20_DebounceWhateverOutcome ==
    \A j \in 1..Len(vlog) :
        vlog[j].fired =>
            /\ Since(j, Len(vlog)) = {} =>
                  message_history[vlog[j].key] = <<>>
            /\ \A b \in Since(j, Len(vlog)) :
                  /\ Len(vlog[b].w) <= Cardinality(Since(j, b))
                  /\ vlog[b].fired =>
                        Cardinality(Since(j, b)) >=
                            task[vlog[b].seq].settings.spam_limit

\* C20 witness: the purge of a velocity response failed, the member was not
\* punished, and the window is empty
C20_Witness ==
    \E j \in 1..Len(vlog) :
        /\ vlog[j].fired
        /\ task[vlog[j].seq].settings.spam_limit = 2
        /\ Unpunished(vlog[j].seq)
        /\ task[vlog[j].seq].calls # <<>>
        /\ task[vlog[j].seq].calls[1].res = "forbidden"
        /\ message_history[vlog[j].key] = <<>>

====
